---- MODULE Spec2Model ----
(***************************************************************************)
(* Model of the OptiQuasar (optibeam) data pipeline and its utilities.     *)
(*                                                                         *)
(*   Spec / FairSpec : the two batch pipelines of optibeam/datapipeline.py *)
(*                     (tf_dataset_prep and DataPipeline.data_pipeline)    *)
(*   SpecPool        : process_list_in_parallel and apply_multiprocess of  *)
(*                     optibeam/utils.py                                   *)
(*   SpecTimeout     : the timeout decorator of optibeam/utils.py          *)
(*   SpecSplit       : load_and_process_image of optibeam/datapipeline.py  *)
(*   SpecCrop        : crop_images of optibeam/utils.py and                *)
(*                     crop_images_from_clicks of optibeam/processing.py   *)
(*   SpecCompose     : combine_functions and ImageLoader.load_image of     *)
(*                     optibeam/utils.py                                   *)
(*   SpecWalk        : get_all_file_paths of optibeam/utils.py             *)
(*   SpecSelect      : select_crop_areas_corner and                        *)
(*                     select_crop_areas_center of optibeam/processing.py  *)
(*   SpecThreshold   : apply_threshold of optibeam/processing.py           *)
(***************************************************************************)
EXTENDS Integers, Sequences, FiniteSets, TLC

\* ------------------------------------------------------------------ bounds
MaxM == 4            \* longest manifest
MaxBatch == 2        \* largest batch_size
MaxBuf == 2          \* largest shuffle buffer_size
Parallelism == 2     \* value tf.data.AUTOTUNE settles on for num_parallel_calls
PrefetchDepth == 2   \* value tf.data.AUTOTUNE settles on for prefetch
MaxPulls == 5        \* pulls the consumer makes before it stops
MaxItems == 5        \* longest item list of a parallel map
MaxProcs == 2        \* largest multiprocess.cpu_count()
MaxH == 2            \* largest image height
MaxW == 4            \* largest image width
MaxCropH == 1        \* largest height of an image that is cropped
MaxCropW == 2        \* largest width of an image that is cropped
MaxRegions == 2      \* most regions of one crop call
MaxFuncs == 3        \* longest list of functions that is combined
MaxNames == 2        \* most entries of one directory
MaxDirs == 2         \* most directories of one walk
SelW == 2            \* width of the image regions are selected on
SelH == 1            \* height of the image regions are selected on
MaxNum == 2          \* most rectangles asked of a selection
MaxPixels == 3       \* most pixels of an image that is thresholded

VARIABLES
    \* ---- configuration of one pipeline run (fixed after construction)
    kind,         \* "tf": tf_dataset_prep, "gen": DataPipeline.data_pipeline
    manifest,     \* data_dirs / self.df: sequence of samples
    batch_size,
    shuffle,
    buffer_size,
    is_batch,
    \* ---- consumer
    started,      \* the iterator was pulled at least once
    pulling,      \* a next() call is in progress
    delivered,    \* outcomes of the completed next() calls, in order
    \* ---- tf_dataset_prep stages
    src_pos,      \* elements read from from_tensor_slices
    shuf_buf,     \* content of the shuffle buffer
    inflight,     \* parallel map invocations, in input order
    cur_batch,    \* elements gathered by batch() for the batch in progress
    prefetch_q,   \* prefetch buffer
    tf_eos,       \* batch() has seen the end of its input
    assembled,    \* history: batches in the order they were assembled
    \* ---- DataPipeline.data_pipeline generator frame
    gen_pc,       \* "while" | "for" | "dead": where the generator frame stands
    row,          \* rows of the current pass of iterrows() already processed
    batch_x,      \* the generator's batch_x list (batch_y runs in lockstep)
    \* ---- parallel map (process_list_in_parallel / apply_multiprocess)
    variant,      \* "map": pool.map, "imap": list(pool.imap)
    function,     \* the mapped function, as item -> result or "raise"
    data_list,    \* the items
    processes,    \* multiprocess.cpu_count()
    p_pc,         \* "idle" | "waiting" | "returned" | "raised"
    task_st,      \* per task (chunk): "queued" | "running" | "done"
    m_value,      \* MapResult._value
    m_success,    \* MapResult._success
    m_left,       \* MapResult._number_left
    i_index,      \* IMapIterator._index
    i_unsorted,   \* IMapIterator._unsorted
    i_items,      \* IMapIterator._items
    result,       \* the list handed to the caller
    done_order,   \* history: tasks in the order they finished
    \* ---- timeout(seconds) decorator
    func,         \* the decorated function: what func(*args) does, per args
    args,         \* the arguments of the guarded call
    w_pc,         \* wrapper: "idle" | "join" | "check" | "grace" | "raise" | "done"
    thread,       \* function_thread: "none" | "alive" | "dead"
    result0,      \* result[0]
    outcome,      \* how the wrapper call ended
    timed_out,    \* history: thread.join(seconds) ended by the timeout
    \* ---- load_and_process_image(path)
    file,         \* what `path` holds: readable or not, and the encoded image
    s_pc,         \* "idle" | "returned" | "raised"
    s_input,      \* first component of the returned pair
    s_label,      \* second component of the returned pair
    \* ---- crop_images(image, regions) / crop_images_from_clicks(click_list, image)
    crop_fn,      \* which of the two functions is called
    crop_image,   \* the `image` array: its shape (pixels are named by position)
    regions,      \* regions / click_list: sequence of (top_left, bottom_right)
    crop_pc,      \* "idle" | "returned"
    cropped_images,  \* the list handed to the caller
    \* ---- combine_functions(functions) / ImageLoader(funcs).load_image(path)
    functions,    \* functions / self.funcs: the list of callables
    f_pc,         \* "idle" | "combined" | "called" | "loaded"
    combined,     \* the callable combine_functions returned
    x_arg,        \* the value the pipeline was applied to
    y_out,        \* the value that came back
    \* ---- get_all_file_paths(dirs, types)
    tree,         \* the file system below the directory "1": name -> entry
    dirs,         \* the directories to walk, in the caller's order
    g_pc,         \* "idle" | "walking" | "returned"
    dir_idx,      \* position in `for dir in dirs`
    pending,      \* directories os.walk(dir) has still to list, next first
    file_paths,   \* the list that is built and returned
    \* ---- select_crop_areas_corner / select_crop_areas_center
    tool,         \* "corner" | "center": which of the two functions runs
    num,          \* number of rectangles asked for
    scale_factor, \* display scale, as the fraction <<numerator, denominator>>
    sel_pc,       \* "open": the window handles events | "returned": ESC pressed
    points,       \* the closure's points list
    rectangles,   \* the closure's rectangles (squares) list, which is returned
    was_reset,    \* history: a click has cleared a complete set
    \* ---- apply_threshold(image, threshold)
    thr_image,    \* the `image` array: its dtype and its pixels
    threshold,
    thr_pc,       \* "idle" | "returned" | "raised"
    thresholded_image   \* the pixels of the array handed to the caller

cfgVars == <<kind, manifest, batch_size, shuffle, buffer_size, is_batch>>
conVars == <<started, pulling, delivered>>
tfVars == <<src_pos, shuf_buf, inflight, cur_batch, prefetch_q, tf_eos>>
genVars == <<gen_pc, row, batch_x>>
pipeVars == <<cfgVars, conVars, tfVars, assembled, genVars>>

poolVars == <<variant, function, data_list, processes, p_pc, task_st, m_value,
              m_success, m_left, i_index, i_unsorted, i_items, result, done_order>>

toVars == <<func, args, w_pc, thread, result0, outcome, timed_out>>

splitVars == <<file, s_pc, s_input, s_label>>

cropVars == <<crop_fn, crop_image, regions, crop_pc, cropped_images>>

composeVars == <<functions, f_pc, combined, x_arg, y_out>>

walkVars == <<tree, dirs, g_pc, dir_idx, pending, file_paths>>

selVars == <<tool, num, scale_factor, sel_pc, points, rectangles, was_reset>>

thrVars == <<thr_image, threshold, thr_pc, thresholded_image>>

vars == <<pipeVars, poolVars, toVars, splitVars, cropVars, composeVars, walkVars, selVars, thrVars>>

\* what a step of the batch pipelines leaves alone
notPipe == <<poolVars, toVars, splitVars, cropVars, composeVars,
            walkVars, selVars, thrVars>>
\* what a step of the parallel map leaves alone
notPool == <<pipeVars, toVars, splitVars, cropVars, composeVars,
            walkVars, selVars, thrVars>>
\* what a step of the guarded call leaves alone
notTimeout == <<pipeVars, poolVars, splitVars, cropVars, composeVars,
            walkVars, selVars, thrVars>>
\* what a step of the split derivation leaves alone
notSplit == <<pipeVars, poolVars, toVars, cropVars, composeVars,
            walkVars, selVars, thrVars>>
\* what a step of the crop derivation leaves alone
notCrop == <<pipeVars, poolVars, toVars, splitVars, composeVars,
            walkVars, selVars, thrVars>>
\* what a step of the function composition leaves alone
notCompose == <<pipeVars, poolVars, toVars, splitVars, cropVars,
            walkVars, selVars, thrVars>>
\* what a step of the directory walk leaves alone
notWalk == <<pipeVars, poolVars, toVars, splitVars, cropVars, composeVars,
            selVars, thrVars>>
\* what a step of the region selection leaves alone
notSelect == <<pipeVars, poolVars, toVars,
            splitVars, cropVars, composeVars, walkVars, thrVars>>
\* what a step of the thresholding leaves alone
notThreshold == <<pipeVars, poolVars, toVars, splitVars,
            cropVars, composeVars, walkVars, selVars>>

\* ----------------------------------------------------------------- helpers
Min(a, b) == IF a < b THEN a ELSE b

Range(s) == {s[i] : i \in 1..Len(s)}

Ceil(a, b) == (a + b - 1) \div b

\* the consecutive indices a+1 .. a+n as a sequence
Run(a, n) == [i \in 1..n |-> a + i]

\* outcomes of a pull
Batch(items) == [type |-> "batch", items |-> items]
Item(i) == [type |-> "item", items |-> <<i>>]
Error == [type |-> "error", items |-> <<>>]
Eos == [type |-> "eos", items |-> <<>>]

\* a sample of the manifest: ok is FALSE when reading, decoding or cropping
\* its image raises
Sample == [ok : BOOLEAN]

M == Len(manifest)

\* --------------------------------------------------------------- consumer
\* the training loop calls next() on the dataset iterator / generator
StartPull ==
    /\ ~pulling
    /\ Len(delivered) < MaxPulls
    /\ pulling' = TRUE
    /\ started' = TRUE
    /\ UNCHANGED <<cfgVars, delivered, tfVars, assembled, genVars>>
    /\ UNCHANGED notPipe

\* --------------------------------------------------- tf_dataset_prep stages
\* shuffle(buffer_size) or, without shuffle, from_tensor_slices itself has
\* nothing left to hand to map()
UpstreamExhausted ==
    /\ src_pos = M
    /\ shuffle => shuf_buf = {}

\* TfMapStart as it would be if shuffle(buffer_size) kept one element more
\* than buffer_size before it emits
TfMapStart_WiderWindow ==
    /\ kind = "tf"
    /\ started
    /\ Len(inflight) < Parallelism
    /\ ~UpstreamExhausted
    /\ IF shuffle
       THEN LET n == Min(buffer_size + 1 - Cardinality(shuf_buf), M - src_pos)
                filled == shuf_buf \cup Range(Run(src_pos, n))
            IN \E e \in filled :
                  /\ shuf_buf' = filled \ {e}
                  /\ src_pos' = src_pos + n
                  /\ inflight' = Append(inflight, [idx |-> e, st |-> "run"])
       ELSE /\ src_pos' = src_pos + 1
            /\ inflight' = Append(inflight, [idx |-> src_pos + 1, st |-> "run"])
            /\ UNCHANGED shuf_buf
    /\ UNCHANGED <<cfgVars, conVars, cur_batch, prefetch_q, tf_eos, assembled, genVars>>
    /\ UNCHANGED notPipe

\* map(func, num_parallel_calls): take the next upstream element and start
\* func on it; with shuffle the upstream GetNext first fills the buffer and
\* then emits one resident element picked at random
TfMapStart ==
    /\ kind = "tf"
    /\ started
    /\ Len(inflight) < Parallelism
    /\ ~UpstreamExhausted
    /\ IF shuffle
       THEN LET n == Min(buffer_size - Cardinality(shuf_buf), M - src_pos)
                filled == shuf_buf \cup Range(Run(src_pos, n))
            IN \E e \in filled :
                  /\ shuf_buf' = filled \ {e}
                  /\ src_pos' = src_pos + n
                  /\ inflight' = Append(inflight, [idx |-> e, st |-> "run"])
       ELSE /\ src_pos' = src_pos + 1
            /\ inflight' = Append(inflight, [idx |-> src_pos + 1, st |-> "run"])
            /\ UNCHANGED shuf_buf
    /\ UNCHANGED <<cfgVars, conVars, cur_batch, prefetch_q, tf_eos, assembled, genVars>>
    /\ UNCHANGED notPipe

\* one of the running invocations of func finishes, in any order
TfMapDone ==
    /\ kind = "tf"
    /\ \E k \in 1..Len(inflight) :
          /\ inflight[k].st = "run"
          /\ inflight' = [inflight EXCEPT ![k].st =
                             IF manifest[inflight[k].idx].ok THEN "ok" ELSE "err"]
    /\ UNCHANGED <<cfgVars, conVars, src_pos, shuf_buf, cur_batch, prefetch_q,
                   tf_eos, assembled, genVars>>
    /\ UNCHANGED notPipe

\* TfBatchTake as it would be if map() ran with deterministic=False: any
\* finished invocation is handed on, not only the oldest
TfBatchTake_Unordered ==
    /\ kind = "tf"
    /\ ~tf_eos
    /\ Len(prefetch_q) < PrefetchDepth
    /\ \E k \in 1..Len(inflight) :
          /\ inflight[k].st /= "run"
          /\ inflight' = [i \in 1..(Len(inflight) - 1) |->
                             IF i < k THEN inflight[i] ELSE inflight[i + 1]]
          /\ IF inflight[k].st = "err"
             THEN /\ cur_batch' = <<>>
                  /\ prefetch_q' = Append(prefetch_q, Error)
                  /\ UNCHANGED assembled
             ELSE LET nb == Append(cur_batch, inflight[k].idx)
                  IN IF Len(nb) >= batch_size
                     THEN /\ cur_batch' = <<>>
                          /\ prefetch_q' = Append(prefetch_q, Batch(nb))
                          /\ assembled' = Append(assembled, nb)
                     ELSE /\ cur_batch' = nb
                          /\ UNCHANGED <<prefetch_q, assembled>>
    /\ UNCHANGED <<cfgVars, conVars, src_pos, shuf_buf, tf_eos, genVars>>
    /\ UNCHANGED notPipe

\* batch(batch_size) under prefetch(): take the oldest invocation once it has
\* finished (map is deterministic: results leave in input order); a full
\* batch goes to the prefetch buffer, an error drops the gathered elements
\* and goes to the prefetch buffer in their place
TfBatchTake ==
    /\ kind = "tf"
    /\ ~tf_eos
    /\ Len(prefetch_q) < PrefetchDepth
    /\ inflight /= <<>>
    /\ Head(inflight).st /= "run"
    /\ inflight' = Tail(inflight)
    /\ IF Head(inflight).st = "err"
       THEN /\ cur_batch' = <<>>
            /\ prefetch_q' = Append(prefetch_q, Error)
            /\ UNCHANGED assembled
       ELSE LET nb == Append(cur_batch, Head(inflight).idx)
            IN IF Len(nb) >= batch_size
               THEN /\ cur_batch' = <<>>
                    /\ prefetch_q' = Append(prefetch_q, Batch(nb))
                    /\ assembled' = Append(assembled, nb)
               ELSE /\ cur_batch' = nb
                    /\ UNCHANGED <<prefetch_q, assembled>>
    /\ UNCHANGED <<cfgVars, conVars, src_pos, shuf_buf, tf_eos, genVars>>
    /\ UNCHANGED notPipe

\* batch() reaches the end of its input: the remainder (drop_remainder is
\* left at its default False) is emitted as a last, shorter batch
TfBatchEnd ==
    /\ kind = "tf"
    /\ started
    /\ ~tf_eos
    /\ Len(prefetch_q) < PrefetchDepth
    /\ UpstreamExhausted
    /\ inflight = <<>>
    /\ tf_eos' = TRUE
    /\ cur_batch' = <<>>
    /\ IF cur_batch /= <<>>
       THEN /\ prefetch_q' = Append(prefetch_q, Batch(cur_batch))
            /\ assembled' = Append(assembled, cur_batch)
       ELSE UNCHANGED <<prefetch_q, assembled>>
    /\ UNCHANGED <<cfgVars, conVars, src_pos, shuf_buf, inflight, genVars>>
    /\ UNCHANGED notPipe

\* next() on the dataset iterator returns the oldest prefetched element
TfDeliver ==
    /\ kind = "tf"
    /\ pulling
    /\ prefetch_q /= <<>>
    /\ delivered' = Append(delivered, Head(prefetch_q))
    /\ prefetch_q' = Tail(prefetch_q)
    /\ pulling' = FALSE
    /\ UNCHANGED <<cfgVars, started, src_pos, shuf_buf, inflight, cur_batch,
                   tf_eos, assembled, genVars>>
    /\ UNCHANGED notPipe

\* next() on an exhausted dataset iterator: end of sequence
TfDeliverEos ==
    /\ kind = "tf"
    /\ pulling
    /\ prefetch_q = <<>>
    /\ tf_eos
    /\ delivered' = Append(delivered, Eos)
    /\ pulling' = FALSE
    /\ UNCHANGED <<cfgVars, started, tfVars, assembled, genVars>>
    /\ UNCHANGED notPipe

\* ------------------------------------------- DataPipeline.data_pipeline
\* one iteration of `for index, row in self.df.iterrows()`
GenRow ==
    /\ kind = "gen"
    /\ pulling
    /\ gen_pc = "for"
    /\ row < M
    /\ row' = row + 1
    /\ IF ~manifest[row + 1].ok
       THEN \* Image.open / crop / resize raises: the exception leaves the
            \* generator, which is finished from then on
            /\ gen_pc' = "dead"
            /\ delivered' = Append(delivered, Error)
            /\ pulling' = FALSE
            /\ UNCHANGED <<batch_x, assembled>>
       ELSE IF is_batch
            THEN LET nb == Append(batch_x, row + 1)
                 IN IF Len(nb) >= batch_size
                    THEN /\ delivered' = Append(delivered, Batch(nb))
                         /\ assembled' = Append(assembled, nb)
                         /\ batch_x' = <<>>
                         /\ pulling' = FALSE
                         /\ UNCHANGED gen_pc
                    ELSE /\ batch_x' = nb
                         /\ UNCHANGED <<gen_pc, delivered, pulling, assembled>>
            ELSE /\ delivered' = Append(delivered, Item(row + 1))
                 /\ pulling' = FALSE
                 /\ UNCHANGED <<gen_pc, batch_x, assembled>>
    /\ UNCHANGED <<cfgVars, started, tfVars>>
    /\ UNCHANGED notPipe

\* `while True`: start a pass over self.df
GenWhile ==
    /\ kind = "gen"
    /\ pulling
    /\ gen_pc = "while"
    /\ gen_pc' = "for"
    /\ row' = 0
    /\ UNCHANGED <<cfgVars, conVars, tfVars, assembled, batch_x>>
    /\ UNCHANGED notPipe

\* the for loop is exhausted: control returns to `while True`
GenWrap ==
    /\ kind = "gen"
    /\ pulling
    /\ gen_pc = "for"
    /\ row = M
    /\ gen_pc' = "while"
    /\ UNCHANGED <<cfgVars, conVars, tfVars, assembled, row, batch_x>>
    /\ UNCHANGED notPipe

\* next() on a generator that an exception has left: StopIteration
GenStop ==
    /\ kind = "gen"
    /\ pulling
    /\ gen_pc = "dead"
    /\ delivered' = Append(delivered, Eos)
    /\ pulling' = FALSE
    /\ UNCHANGED <<cfgVars, started, tfVars, assembled, genVars>>
    /\ UNCHANGED notPipe

\* ------------------------ process_list_in_parallel / apply_multiprocess
\* values an item can take, and what function makes of an item: a result or
\* an exception
ItemVals == {"x", "y"}

Results == {"a", "b"}

Functions == [ItemVals -> Results \cup {"raise"}]

DataLists == UNION {[1..n -> ItemVals] : n \in 0..MaxItems}

N == Len(data_list)

\* pool.map cuts the items into chunks of ceil(len / (4 * processes)) items,
\* pool.imap is called with its default chunksize of 1
Chunksize ==
    IF variant = "imap" THEN 1
    ELSE IF N = 0 THEN 0 ELSE Ceil(N, 4 * processes)

NumTasks == IF Chunksize = 0 THEN 0 ELSE Ceil(N, Chunksize)

ChunkLo(c) == (c - 1) * Chunksize + 1

ChunkHi(c) == Min(c * Chunksize, N)

\* what a worker sends back for task c: (True, [function(x) for x in chunk])
\* or (False, exception) when function raises on an item of the chunk
TaskResult(c) ==
    IF \E i \in ChunkLo(c)..ChunkHi(c) : function[data_list[i]] = "raise"
    THEN [ok |-> FALSE, vals |-> <<>>]
    ELSE [ok |-> TRUE,
          vals |-> [k \in 1..(ChunkHi(c) - ChunkLo(c) + 1) |->
                       function[data_list[ChunkLo(c) + k - 1]]]]

Running == {c \in 1..Len(task_st) : task_st[c] = "running"}

Queued == {c \in 1..Len(task_st) : task_st[c] = "queued"}

\* the caller enters `with Pool(...)` and hands the items to pool.map /
\* pool.imap
PoolSubmit ==
    /\ p_pc = "idle"
    /\ p_pc' = "waiting"
    /\ task_st' = [c \in 1..NumTasks |-> "queued"]
    /\ m_value' = [i \in 1..N |-> "None"]
    /\ m_success' = TRUE
    /\ m_left' = NumTasks
    /\ UNCHANGED <<variant, function, data_list, processes, i_index, i_unsorted,
                   i_items, result, done_order>>
    /\ UNCHANGED notPool

\* an idle worker process takes the oldest task of the task queue
WorkerTake ==
    /\ p_pc = "waiting"
    /\ Cardinality(Running) < processes
    /\ Queued /= {}
    /\ LET c == CHOOSE q \in Queued : \A o \in Queued : q <= o
       IN task_st' = [task_st EXCEPT ![c] = "running"]
    /\ UNCHANGED <<variant, function, data_list, processes, p_pc, m_value,
                   m_success, m_left, i_index, i_unsorted, i_items, result,
                   done_order>>
    /\ UNCHANGED notPool

\* MapResult._set(c, r): results are stored at the chunk's own position;
\* the first failure replaces the value by the exception
MapSet(c, r) ==
    /\ m_left' = m_left - 1
    /\ IF r.ok /\ m_success
       THEN /\ m_value' = [i \in 1..N |->
                              IF ChunkLo(c) <= i /\ i <= ChunkHi(c)
                              THEN r.vals[i - ChunkLo(c) + 1]
                              ELSE m_value[i]]
            /\ UNCHANGED m_success
       ELSE IF ~r.ok /\ m_success
            THEN /\ m_success' = FALSE
                 /\ m_value' = <<>>
            ELSE UNCHANGED <<m_value, m_success>>
    /\ UNCHANGED <<i_index, i_unsorted, i_items>>

\* IMapIterator._set(c, r): the result expected next is appended to _items
\* together with the results parked in _unsorted that follow it; any other
\* result is parked in _unsorted
IMapSet(c, r) ==
    /\ IF i_index + 1 = c
       THEN LET have == {u[1] : u \in i_unsorted}
                last == CHOOSE n \in c..NumTasks :
                            /\ \A k \in (c + 1)..n : k \in have
                            /\ n = NumTasks \/ (n + 1) \notin have
                parked(k) == (CHOOSE u \in i_unsorted : u[1] = k)[2]
            IN /\ i_items' = i_items \o
                      [k \in 1..(last - c + 1) |->
                          IF k = 1 THEN r ELSE parked(c + k - 1)]
               /\ i_index' = last
               /\ i_unsorted' = {u \in i_unsorted : u[1] > last}
       ELSE /\ i_unsorted' = i_unsorted \cup {<<c, r>>}
            /\ UNCHANGED <<i_index, i_items>>
    /\ UNCHANGED <<m_value, m_success, m_left>>

\* The result handler as it would be if results were stored in the order
\* in which the workers finish (pool.imap_unordered)
ResultSet_Unordered(c, r) ==
    /\ m_left' = m_left - 1
    /\ IF r.ok /\ m_success
       THEN /\ m_value' = [i \in 1..N |->
                              LET first == (NumTasks - m_left) * Chunksize + 1
                              IN IF first <= i /\ i < first + Len(r.vals)
                                 THEN r.vals[i - first + 1]
                                 ELSE m_value[i]]
            /\ UNCHANGED m_success
       ELSE IF ~r.ok /\ m_success
            THEN /\ m_success' = FALSE
                 /\ m_value' = <<>>
            ELSE UNCHANGED <<m_value, m_success>>
    /\ i_items' = Append(i_items, r)
    /\ i_index' = i_index + 1
    /\ UNCHANGED i_unsorted

\* the pool's result handler files the result r of task c with the job
ResultSet(c, r) ==
    IF variant = "map" THEN MapSet(c, r) ELSE IMapSet(c, r)

\* a worker finishes its task, in any order among the running ones
WorkerFinish ==
    /\ p_pc = "waiting"
    /\ \E c \in Running :
          /\ task_st' = [task_st EXCEPT ![c] = "done"]
          /\ ResultSet(c, TaskResult(c))
          /\ done_order' = Append(done_order, c)
    /\ UNCHANGED <<variant, function, data_list, processes, p_pc, result>>
    /\ UNCHANGED notPool

\* pool.map returns once every task has reported: the list of results, or
\* the first exception raised again in the caller
MapReturn ==
    /\ variant = "map"
    /\ p_pc = "waiting"
    /\ m_left = 0
    /\ IF m_success
       THEN p_pc' = "returned" /\ result' = m_value
       ELSE p_pc' = "raised" /\ UNCHANGED result
    /\ UNCHANGED <<variant, function, data_list, processes, task_st, m_value,
                   m_success, m_left, i_index, i_unsorted, i_items, done_order>>
    /\ UNCHANGED notPool

\* list(tqdm(pool.imap(...))) draws the next result: a value extends the
\* list, an exception is raised out of list() and the list is lost, the end
\* of the iterator completes the list; leaving `with` terminates the pool
IMapNext ==
    /\ variant = "imap"
    /\ p_pc = "waiting"
    /\ IF i_items /= <<>>
       THEN /\ i_items' = Tail(i_items)
            /\ IF Head(i_items).ok
               THEN /\ result' = Append(result, Head(i_items).vals[1])
                    /\ UNCHANGED p_pc
               ELSE /\ result' = <<>>
                    /\ p_pc' = "raised"
       ELSE /\ i_index = NumTasks
            /\ p_pc' = "returned"
            /\ UNCHANGED <<result, i_items>>
    /\ UNCHANGED <<variant, function, data_list, processes, task_st, m_value,
                   m_success, m_left, i_index, i_unsorted, done_order>>
    /\ UNCHANGED notPool

\* ------------------------------------------------------- timeout(seconds)
\* Python objects: None, plain values, instances of Exception, and
\* instances of BaseException that are not an Exception
None == [tag |-> "none", v |-> "None"]

Values == {[tag |-> "val", v |-> "v1"]}

Exceptions == {[tag |-> "exc", v |-> "ValueError"]}

BaseExceptions == {[tag |-> "base", v |-> "SystemExit"]}

TimeoutErr == [tag |-> "exc", v |-> "TimeoutError"]

\* isinstance(o, Exception)
IsException(o) == o.tag = "exc"

\* what func(*args) can do: return an object (an exception object too),
\* raise, or never come back
Behaviours ==
    {[kind |-> "return", obj |-> o] : o \in {None} \cup Values \cup Exceptions}
    \cup {[kind |-> "raise", obj |-> e] : e \in Exceptions \cup BaseExceptions}
    \cup {[kind |-> "hang", obj |-> None]}

Args == {"p", "q"}

Returned(o) == [kind |-> "return", obj |-> o]

Raised(o) == [kind |-> "raise", obj |-> o]

\* wrapper(*args): thread = Thread(target=function_thread); thread.start();
\* thread.join(seconds) begins
ToCall ==
    /\ w_pc = "idle"
    /\ w_pc' = "join"
    /\ thread' = "alive"
    /\ result0' = None
    /\ UNCHANGED <<func, args, outcome, timed_out>>
    /\ UNCHANGED notTimeout

\* function_thread runs to its end: the return value, or the Exception
\* caught by `except Exception`, is stored in result[0]; any other
\* BaseException ends the thread with result[0] untouched
ThreadEnd ==
    /\ thread = "alive"
    /\ func[args].kind /= "hang"
    /\ thread' = "dead"
    /\ result0' = IF func[args].kind = "return" \/ IsException(func[args].obj)
                  THEN func[args].obj
                  ELSE result0
    /\ UNCHANGED <<func, args, w_pc, outcome, timed_out>>
    /\ UNCHANGED notTimeout

\* thread.join(seconds) returns because the thread has ended
JoinReturns ==
    /\ w_pc = "join"
    /\ thread = "dead"
    /\ w_pc' = "check"
    /\ UNCHANGED <<func, args, thread, result0, outcome, timed_out>>
    /\ UNCHANGED notTimeout

\* thread.join(seconds) returns because `seconds` have passed with the
\* thread still running
JoinTimesOut ==
    /\ w_pc = "join"
    /\ thread = "alive"
    /\ w_pc' = "check"
    /\ timed_out' = TRUE
    /\ UNCHANGED <<func, args, thread, result0, outcome>>
    /\ UNCHANGED notTimeout

\* `if thread.is_alive():` else `return result[0]`
CheckAlive ==
    /\ w_pc = "check"
    /\ IF thread = "alive"
       THEN w_pc' = "grace" /\ UNCHANGED outcome
       ELSE w_pc' = "done" /\ outcome' = Returned(result0)
    /\ UNCHANGED <<func, args, thread, result0, timed_out>>
    /\ UNCHANGED notTimeout

\* thread.join(0.1) returns: the thread has ended, or 0.1 s have passed
GraceEnds ==
    /\ w_pc = "grace"
    /\ w_pc' = "raise"
    /\ UNCHANGED <<func, args, thread, result0, outcome, timed_out>>
    /\ UNCHANGED notTimeout

\* `if isinstance(result[0], Exception): raise result[0]`, else
\* `raise TimeoutError(...)`
RaiseAfterGrace ==
    /\ w_pc = "raise"
    /\ w_pc' = "done"
    /\ outcome' = IF IsException(result0) THEN Raised(result0) ELSE Raised(TimeoutErr)
    /\ UNCHANGED <<func, args, thread, result0, timed_out>>
    /\ UNCHANGED notTimeout

\* ------------------------------------------------- load_and_process_image
\* 8-bit grey levels an encoded image is made of
Pixels == {0, 255}

\* an image as decode_image(channels=1) returns it: rows of W pixels
Images == UNION {[1..h -> [1..w -> Pixels]] : <<h, w>> \in (1..MaxH) \X (1..MaxW)}

Files == {[readable |-> FALSE, image |-> <<>>]}
         \cup {[readable |-> TRUE, image |-> i] : i \in Images}

Height(img) == Len(img)

Width(img) == Len(img[1])

\* tf.image.convert_image_dtype(image, tf.float32): the level p becomes the
\* float p / 255, kept as numerator and denominator
ConvertImageDtype(img) ==
    [r \in 1..Height(img) |-> [c \in 1..Width(img) |-> <<img[r][c], 255>>]]

\* image[:, lo:hi]: the columns lo .. hi-1 (counted from 0) of every row
Columns(img, lo, hi) ==
    [r \in 1..Height(img) |-> SubSeq(img[r], lo + 1, hi)]

\* half_width as it would be if the split rounded up
HalfWidth_Up(width) == (width + 1) \div 2

\* half_width = width // 2
HalfWidth(width) == width \div 2

\* load_and_process_image(path): read, decode, convert, split in half
LoadAndProcessImage ==
    /\ s_pc = "idle"
    /\ IF ~file.readable
       THEN \* tf.io.read_file / decode_image raises
            /\ s_pc' = "raised"
            /\ UNCHANGED <<s_input, s_label>>
       ELSE LET image == ConvertImageDtype(file.image)
                width == Width(image)
                half_width == HalfWidth(width)
            IN /\ s_label' = Columns(image, 0, half_width)
               /\ s_input' = Columns(image, half_width, width)
               /\ s_pc' = "returned"
    /\ UNCHANGED file
    /\ UNCHANGED notSplit

\* ------------------------------------------------------- crop derivation
\* utils.crop_images and processing.crop_images_from_clicks: both slice the
\* array as image[top_left[1]:bottom_right[1], top_left[0]:bottom_right[0]].
\* A point is (x, y); a region is (top_left, bottom_right).
Max(a, b) == IF a > b THEN a ELSE b

\* coordinates offered to the crop functions for an axis of length n: from one
\* before the first index to one past the length
Coords(n) == (0 - 1)..(n + 1)
Points(shape) == Coords(shape.w) \X Coords(shape.h)
Rectangles(shape) == Points(shape) \X Points(shape)
Shapes == [h : 1..MaxCropH, w : 1..MaxCropW]

\* numpy basic slicing a[lo:hi] on an axis of length n: a negative index
\* counts from the end, and both ends are clipped to 0..n
SliceIndex(i, n) == IF i < 0 THEN Max(i + n, 0) ELSE Min(i, n)
SliceLen(lo, hi, n) == Max(SliceIndex(hi, n) - SliceIndex(lo, n), 0)

\* image[top_left[1]:bottom_right[1], top_left[0]:bottom_right[0]]: the
\* array of the selected rows and columns; px names, for each cell of the
\* result, the (row, column) of `image` it shows (0-based)
ImageSlice(shape, region) ==
    LET top_left == region[1]
        bottom_right == region[2]
        y0 == SliceIndex(top_left[2], shape.h)
        x0 == SliceIndex(top_left[1], shape.w)
        hh == SliceLen(top_left[2], bottom_right[2], shape.h)
        ww == SliceLen(top_left[1], bottom_right[1], shape.w)
    IN  [h |-> hh, w |-> ww,
         px |-> [p \in (1..hh) \X (1..ww) |-> <<y0 + p[1] - 1, x0 + p[2] - 1>>]]

\* crop_images: for region in regions: ... cropped_images.append(cropped_image)
CropImages ==
    /\ crop_fn = "crop_images"
    /\ crop_pc = "idle"
    /\ cropped_images' = [i \in 1..Len(regions) |-> ImageSlice(crop_image, regions[i])]
    /\ crop_pc' = "returned"
    /\ UNCHANGED <<crop_fn, crop_image, regions>>
    /\ UNCHANGED notCrop

\* crop_images_from_clicks: for i in range(len(click_list)): the same slice
CropImagesFromClicks ==
    /\ crop_fn = "crop_images_from_clicks"
    /\ crop_pc = "idle"
    /\ cropped_images' = [i \in 1..Len(regions) |-> ImageSlice(crop_image, regions[i])]
    /\ crop_pc' = "returned"
    /\ UNCHANGED <<crop_fn, crop_image, regions>>
    /\ UNCHANGED notCrop

\* -------------------------------------------------- function composition
\* utils.combine_functions and the loop of ImageLoader.load_image.  A callable
\* is its graph over the data values.
Data == {"u", "v"}
Callables == [Data -> Data]
FunctionLists == UNION {[1..n -> Callables] : n \in 0..MaxFuncs}

\* lambda f, g: lambda x: g(f(x))
Compose_Reversed(f, g) == [x \in Data |-> f[g[x]]]
Compose(f, g) == [x \in Data |-> g[f[x]]]

\* functools.reduce(function, sequence) with no initial value: the
\* accumulator starts as the first item and takes the others left to right
RECURSIVE ReduceFrom(_, _, _)
ReduceFrom(acc, sequence, i) ==
    IF i > Len(sequence) THEN acc
    ELSE ReduceFrom(Compose(acc, sequence[i]), sequence, i + 1)
Reduce(sequence) == ReduceFrom(sequence[1], sequence, 2)

\* combine_functions(functions)
CombineFunctions ==
    /\ f_pc = "idle"
    /\ combined' = IF functions = <<>> THEN [x \in Data |-> x]
                   ELSE Reduce(functions)
    /\ f_pc' = "combined"
    /\ UNCHANGED <<functions, x_arg, y_out>>
    /\ UNCHANGED notCompose

\* a call of the callable that combine_functions returned
CallCombined ==
    /\ f_pc = "combined"
    /\ \E x \in Data :
          /\ x_arg' = x
          /\ y_out' = combined[x]
    /\ f_pc' = "called"
    /\ UNCHANGED <<functions, combined>>
    /\ UNCHANGED notCompose

\* for func in self.funcs: img = func(img)
RECURSIVE ForFuncs(_, _, _)
ForFuncs(img, funcs, i) ==
    IF i > Len(funcs) THEN img ELSE ForFuncs(funcs[i][img], funcs, i + 1)

\* ImageLoader.load_image(image_path): np.array(img) run through self.funcs
LoadImage ==
    /\ f_pc = "idle"
    /\ \E img \in Data :
          /\ x_arg' = img
          /\ y_out' = ForFuncs(img, functions, 1)
    /\ f_pc' = "loaded"
    /\ UNCHANGED <<functions, combined>>
    /\ UNCHANGED notCompose

\* ----------------------------------------------------------- directory walk
\* utils.get_all_file_paths.  A name is its rank in the lexicographic order of
\* names; a path is the sequence of its names.  Directory <<1>> exists and
\* holds `tree`; directory <<2>> does not exist.
Names == 1..MaxNames
\* what a subdirectory holds under a name: nothing, a file whose name
\* contains one of `types`, or a file whose name contains none of them
Leaves == {"absent", "file", "other"}
NoEntries == [n \in Names |-> "absent"]
Entries == [kind : Leaves, sub : {NoEntries}]
           \cup [kind : {"dir"}, sub : [Names -> Leaves]]
Trees == [Names -> Entries]
ExistingDir == <<1>>
MissingDir == <<2>>
DirLists == UNION {[1..n -> {ExistingDir, MissingDir}] : n \in 1..MaxDirs}

\* os.scandir(top) succeeds
IsDir(top) ==
    \/ top = ExistingDir
    \/ Len(top) = 2 /\ top[1] = 1 /\ tree[top[2]].kind = "dir"
\* the kind of the entry `name` of the directory `top`
KindIn(top, name) ==
    IF top = ExistingDir THEN tree[name].kind ELSE tree[top[2]].sub[name]
Listing(top) == {n \in Names : KindIn(top, n) # "absent"}
\* the orders in which os.scandir may enumerate a set of names
Orders(S) ==
    {o \in [1..Cardinality(S) -> S] : \A i, j \in DOMAIN o : i # j => o[i] # o[j]}

RECURSIVE SelectSeq2(_, _, _)
\* the items of the sequence o whose kind in `top` is in kinds, in o's order
SelectSeq2(o, top, kinds) ==
    IF o = <<>> THEN <<>>
    ELSE (IF KindIn(top, Head(o)) \in kinds THEN <<Head(o)>> ELSE <<>>)
         \o SelectSeq2(Tail(o), top, kinds)

\* os.path.abspath(os.path.join(root, file)): the working directory, named 0,
\* is put before the relative path
AbsPath(root, name) == <<0>> \o root \o <<name>>

\* the call: dirs is made a list, file_paths = [], the first os.walk begins
GetAllFilePaths ==
    /\ g_pc = "idle"
    /\ g_pc' = "walking"
    /\ dir_idx' = 1
    /\ pending' = <<dirs[1]>>
    /\ file_paths' = <<>>
    /\ UNCHANGED <<tree, dirs>>
    /\ UNCHANGED notWalk

\* one step of os.walk(dir), top-down: a directory that cannot be listed is
\* passed over in silence (onerror is None); otherwise its entries are taken
\* in the order os.scandir gives them, the matching files are appended in that
\* order and the subdirectories are walked next, in that order
WalkStep ==
    /\ g_pc = "walking"
    /\ pending # <<>>
    /\ LET root == Head(pending)
       IN IF ~IsDir(root)
          THEN /\ pending' = Tail(pending)
               /\ UNCHANGED file_paths
          ELSE \E o \in Orders(Listing(root)) :
                  LET files == SelectSeq2(o, root, {"file"})
                      subdirs == SelectSeq2(o, root, {"dir"})
                  IN /\ file_paths' = file_paths \o
                            [i \in 1..Len(files) |-> AbsPath(root, files[i])]
                     /\ pending' = [i \in 1..Len(subdirs) |-> root \o <<subdirs[i]>>]
                                   \o Tail(pending)
    /\ UNCHANGED <<tree, dirs, g_pc, dir_idx>>
    /\ UNCHANGED notWalk

\* for dir in dirs: the walk of one directory is over, the next begins
NextDir ==
    /\ g_pc = "walking"
    /\ pending = <<>>
    /\ dir_idx < Len(dirs)
    /\ dir_idx' = dir_idx + 1
    /\ pending' = <<dirs[dir_idx + 1]>>
    /\ UNCHANGED <<tree, dirs, g_pc, file_paths>>
    /\ UNCHANGED notWalk

\* print(f"Found {len(file_paths)} files."); return file_paths
ReturnFilePaths ==
    /\ g_pc = "walking"
    /\ pending = <<>>
    /\ dir_idx = Len(dirs)
    /\ g_pc' = "returned"
    /\ UNCHANGED <<tree, dirs, dir_idx, pending, file_paths>>
    /\ UNCHANGED notWalk

\* --------------------------------------------------------- region selection
\* processing.select_crop_areas_corner and select_crop_areas_center: the
\* mouse callback and the ESC loop.  Only EVENT_LBUTTONDOWN changes the state
\* of the callback.
\* max_x, max_y = original_image.shape[1], original_image.shape[0]
max_x == SelW
max_y == SelH

\* display scales: 1 (the default), 2 and 1/2
ScaleFactors == {<<1, 1>>, <<2, 1>>, <<1, 2>>}

\* window positions (x, y) a click may report: outside the image on either
\* side, its corners, and positions in between
Clicks == {<<0 - 1, 0 - 1>>, <<0, 0>>, <<1, 1>>, <<max_x, max_y>>,
           <<max_x + 1, 0>>, <<max_x + 1, max_y + 1>>}

\* int(a / b) for b > 0: the quotient truncated towards zero
IntDiv(a, b) == IF a >= 0 THEN a \div b ELSE 0 - ((0 - a) \div b)
\* int(x / scale_factor)
Orig(x) == IntDiv(x * scale_factor[2], scale_factor[1])

Abs(a) == IF a < 0 THEN 0 - a ELSE a

\* max(0, min(v, hi))
Clamp_None(v, hi) == v
Clamp(v, hi) == Max(0, Min(v, hi))
\* (max(0, min(p[0], max_x)), max(0, min(p[1], max_y)))
ClampPoint(p) == <<Clamp(p[1], max_x), Clamp(p[2], max_y)>>

\* points after `if len(points) >= 2 * num: points = []` and the append
Appended(x, y) ==
    Append(IF Len(points) >= 2 * num THEN <<>> ELSE points, <<Orig(x), Orig(y)>>)
\* rectangles after `if len(points) >= 2 * num: rectangles = []`
Kept == IF Len(points) >= 2 * num THEN <<>> ELSE rectangles

\* mouse_click of select_crop_areas_corner on EVENT_LBUTTONDOWN at (x, y)
MouseClickCorner ==
    /\ tool = "corner"
    /\ sel_pc = "open"
    /\ \E c \in Clicks :
          LET p == Appended(c[1], c[2])
              n == Len(p)
          IN IF n % 2 = 0
             THEN LET q == [p EXCEPT ![n - 1] = ClampPoint(p[n - 1]),
                                     ![n] = ClampPoint(p[n])]
                  IN /\ points' = q
                     /\ rectangles' = Append(Kept, <<q[n - 1], q[n]>>)
             ELSE /\ points' = p
                  /\ rectangles' = Kept
    /\ was_reset' = (was_reset \/ Len(points) >= 2 * num)
    /\ UNCHANGED <<tool, num, scale_factor, sel_pc>>
    /\ UNCHANGED notSelect

\* mouse_click of select_crop_areas_center on EVENT_LBUTTONDOWN at (x, y)
MouseClickCenter ==
    /\ tool = "center"
    /\ sel_pc = "open"
    /\ \E c \in Clicks :
          LET p == Appended(c[1], c[2])
              n == Len(p)
          IN /\ points' = p
             /\ IF n % 2 = 0
                THEN LET center == p[n - 1]
                         edge_point == p[n]
                         side_length == Max(Abs(edge_point[1] - center[1]),
                                            Abs(edge_point[2] - center[2]))
                         top_left == <<center[1] - side_length,
                                       center[2] - side_length>>
                         bottom_right == <<center[1] + side_length,
                                           center[2] + side_length>>
                     IN rectangles' = Append(Kept, <<ClampPoint(top_left),
                                                     ClampPoint(bottom_right)>>)
                ELSE rectangles' = Kept
    /\ was_reset' = (was_reset \/ Len(points) >= 2 * num)
    /\ UNCHANGED <<tool, num, scale_factor, sel_pc>>
    /\ UNCHANGED notSelect

\* cv2.waitKey returns 27: the loop ends and the list is returned
EscPressed ==
    /\ sel_pc = "open"
    /\ sel_pc' = "returned"
    /\ UNCHANGED <<tool, num, scale_factor, points, rectangles, was_reset>>
    /\ UNCHANGED notSelect

\* --------------------------------------------------------------- threshold
\* processing.apply_threshold.  Every number (pixel or threshold) is held as
\* the integer 255 times its value, so that threshold / 255.0 is exact: the
\* float pixel 1.0 is 255, the uint8 pixel 5 is 1275.  The pixels of an array
\* are listed in row-major order.
Unit == 255
Dtypes == {"uint8", "float16", "float32", "float64"}
\* uint8 grey levels 0, 4, 5 and 255
IntLevels == {0, 4 * Unit, 5 * Unit, 255 * Unit}
\* float values -1.0, 0.0, 4/255, 5/255, 1.0 and 5.0
FloatLevels == {0 - Unit, 0, 4, 5, Unit, 5 * Unit}
Levels(dtype) == IF dtype = "uint8" THEN IntLevels ELSE FloatLevels
Arrays == UNION {[dtype : {d}, px : UNION {[1..n -> Levels(d)] : n \in 0..MaxPixels}]
                 : d \in Dtypes}
\* threshold arguments 1 and 5 (the default)
Thresholds == {1 * Unit, 5 * Unit}

\* image.min() and image.max() of a non-empty array
ArrayMin(px) == CHOOSE v \in Range(px) : \A w \in Range(px) : v <= w
ArrayMax(px) == CHOOSE v \in Range(px) : \A w \in Range(px) : v >= w

\* the threshold the pixels are compared with
NormalizedThreshold(img, t) ==
    IF img.dtype \in {"float32", "float64"}
    THEN (IF ArrayMin(img.px) >= 0 /\ ArrayMax(img.px) <= Unit
          THEN t \div Unit
          ELSE t)
    ELSE t

\* apply_threshold(image, threshold): min() of an empty array raises
\* ValueError; otherwise np.where(image >= normalized_threshold, image, 0)
ApplyThreshold ==
    /\ thr_pc = "idle"
    /\ IF thr_image.dtype \in {"float32", "float64"} /\ thr_image.px = <<>>
       THEN /\ thr_pc' = "raised"
            /\ UNCHANGED thresholded_image
       ELSE LET normalized_threshold == NormalizedThreshold(thr_image, threshold)
            IN /\ thresholded_image' =
                     [i \in 1..Len(thr_image.px) |->
                         IF thr_image.px[i] >= normalized_threshold
                         THEN thr_image.px[i] ELSE 0]
               /\ thr_pc' = "returned"
    /\ UNCHANGED <<thr_image, threshold>>
    /\ UNCHANGED notThreshold

\* ------------------------------------------------------------ specification
Manifests == UNION {[1..n -> Sample] : n \in 0..MaxM}

PipeInit ==
    /\ kind \in {"tf", "gen"}
    /\ manifest \in Manifests
    /\ batch_size \in 1..MaxBatch
    /\ shuffle \in (IF kind = "tf" THEN BOOLEAN ELSE {FALSE})
    /\ buffer_size \in (IF shuffle THEN 1..MaxBuf ELSE {1})
    /\ is_batch \in (IF kind = "gen" THEN BOOLEAN ELSE {TRUE})
    /\ started = FALSE
    /\ pulling = FALSE
    /\ delivered = <<>>
    /\ src_pos = 0
    /\ shuf_buf = {}
    /\ inflight = <<>>
    /\ cur_batch = <<>>
    /\ prefetch_q = <<>>
    /\ tf_eos = FALSE
    /\ assembled = <<>>
    /\ gen_pc = "while"
    /\ row = 0
    /\ batch_x = <<>>

\* no pipeline is running
PipeIdle ==
    /\ kind = "tf"
    /\ manifest = <<>>
    /\ batch_size = 1
    /\ shuffle = FALSE
    /\ buffer_size = 1
    /\ is_batch = TRUE
    /\ started = FALSE
    /\ pulling = FALSE
    /\ delivered = <<>>
    /\ src_pos = 0
    /\ shuf_buf = {}
    /\ inflight = <<>>
    /\ cur_batch = <<>>
    /\ prefetch_q = <<>>
    /\ tf_eos = FALSE
    /\ assembled = <<>>
    /\ gen_pc = "while"
    /\ row = 0
    /\ batch_x = <<>>

PoolInit ==
    /\ variant \in {"map", "imap"}
    /\ function \in Functions
    /\ data_list \in DataLists
    /\ processes \in 1..MaxProcs
    /\ p_pc = "idle"
    /\ task_st = <<>>
    /\ m_value = <<>>
    /\ m_success = TRUE
    /\ m_left = 0
    /\ i_index = 0
    /\ i_unsorted = {}
    /\ i_items = <<>>
    /\ result = <<>>
    /\ done_order = <<>>

\* no parallel map is running
PoolIdle ==
    /\ variant = "map"
    /\ function = [v \in ItemVals |-> "a"]
    /\ data_list = <<>>
    /\ processes = 1
    /\ p_pc = "idle"
    /\ task_st = <<>>
    /\ m_value = <<>>
    /\ m_success = TRUE
    /\ m_left = 0
    /\ i_index = 0
    /\ i_unsorted = {}
    /\ i_items = <<>>
    /\ result = <<>>
    /\ done_order = <<>>

TimeoutInit ==
    /\ func \in [Args -> Behaviours]
    /\ args \in Args
    /\ w_pc = "idle"
    /\ thread = "none"
    /\ result0 = None
    /\ outcome = [kind |-> "none", obj |-> None]
    /\ timed_out = FALSE

\* no guarded call is running
TimeoutIdle ==
    /\ func = [a \in Args |-> Returned(None)]
    /\ args = "p"
    /\ w_pc = "idle"
    /\ thread = "none"
    /\ result0 = None
    /\ outcome = [kind |-> "none", obj |-> None]
    /\ timed_out = FALSE

SplitInit ==
    /\ file \in Files
    /\ s_pc = "idle"
    /\ s_input = <<>>
    /\ s_label = <<>>

\* no image is being loaded
SplitIdle ==
    /\ file = [readable |-> FALSE, image |-> <<>>]
    /\ s_pc = "idle"
    /\ s_input = <<>>
    /\ s_label = <<>>

CropInit ==
    /\ crop_fn \in {"crop_images", "crop_images_from_clicks"}
    /\ crop_image \in Shapes
    /\ regions \in UNION {[1..n -> Rectangles(crop_image)] : n \in 0..MaxRegions}
    /\ crop_pc = "idle"
    /\ cropped_images = <<>>

\* no crop is being derived
CropIdle ==
    /\ crop_fn = "crop_images"
    /\ crop_image = [h |-> 1, w |-> 1]
    /\ regions = <<>>
    /\ crop_pc = "idle"
    /\ cropped_images = <<>>

ComposeInit ==
    /\ functions \in FunctionLists
    /\ f_pc = "idle"
    /\ combined = None
    /\ x_arg = None
    /\ y_out = None

\* no function list is in use
ComposeIdle ==
    /\ functions = <<>>
    /\ f_pc = "idle"
    /\ combined = None
    /\ x_arg = None
    /\ y_out = None

WalkInit ==
    /\ tree \in Trees
    /\ dirs \in DirLists
    /\ g_pc = "idle"
    /\ dir_idx = 0
    /\ pending = <<>>
    /\ file_paths = <<>>

\* no directory is being walked
WalkIdle ==
    /\ tree = [n \in Names |-> [kind |-> "absent", sub |-> NoEntries]]
    /\ dirs = <<ExistingDir>>
    /\ g_pc = "idle"
    /\ dir_idx = 0
    /\ pending = <<>>
    /\ file_paths = <<>>

SelectInit ==
    /\ tool \in {"corner", "center"}
    /\ num \in 1..MaxNum
    /\ scale_factor \in ScaleFactors
    /\ sel_pc = "open"
    /\ points = <<>>
    /\ rectangles = <<>>
    /\ was_reset = FALSE

\* no selection window is open
SelectIdle ==
    /\ tool = "corner"
    /\ num = 1
    /\ scale_factor = <<1, 1>>
    /\ sel_pc = "returned"
    /\ points = <<>>
    /\ rectangles = <<>>
    /\ was_reset = FALSE

ThresholdInit ==
    /\ thr_image \in Arrays
    /\ threshold \in Thresholds
    /\ thr_pc = "idle"
    /\ thresholded_image = <<>>

\* no image is being thresholded
ThresholdIdle ==
    /\ thr_image = [dtype |-> "uint8", px |-> <<>>]
    /\ threshold = 5 * Unit
    /\ thr_pc = "idle"
    /\ thresholded_image = <<>>

Init ==
    /\ PipeInit
    /\ PoolIdle
    /\ TimeoutIdle
    /\ SplitIdle
    /\ CropIdle
    /\ ComposeIdle
    /\ WalkIdle
    /\ SelectIdle
    /\ ThresholdIdle

Next ==
    \/ StartPull
    \/ TfMapStart
    \/ TfMapDone
    \/ TfBatchTake
    \/ TfBatchEnd
    \/ TfDeliver
    \/ TfDeliverEos
    \/ GenWhile
    \/ GenRow
    \/ GenWrap
    \/ GenStop

Spec == Init /\ [][Next]_vars

\* the parallel map utilities of optibeam/utils.py
InitPool ==
    /\ PoolInit
    /\ PipeIdle
    /\ TimeoutIdle
    /\ SplitIdle
    /\ CropIdle
    /\ ComposeIdle
    /\ WalkIdle
    /\ SelectIdle
    /\ ThresholdIdle

NextPool ==
    \/ PoolSubmit
    \/ WorkerTake
    \/ WorkerFinish
    \/ MapReturn
    \/ IMapNext

SpecPool == InitPool /\ [][NextPool]_vars

\* the timeout decorator of optibeam/utils.py
InitTimeout ==
    /\ TimeoutInit
    /\ PipeIdle
    /\ PoolIdle
    /\ SplitIdle
    /\ CropIdle
    /\ ComposeIdle
    /\ WalkIdle
    /\ SelectIdle
    /\ ThresholdIdle

NextTimeout ==
    \/ ToCall
    \/ ThreadEnd
    \/ JoinReturns
    \/ JoinTimesOut
    \/ CheckAlive
    \/ GraceEnds
    \/ RaiseAfterGrace

SpecTimeout == InitTimeout /\ [][NextTimeout]_vars

\* the split derivation of optibeam/datapipeline.py
InitSplit ==
    /\ SplitInit
    /\ PipeIdle
    /\ PoolIdle
    /\ TimeoutIdle
    /\ CropIdle
    /\ ComposeIdle
    /\ WalkIdle
    /\ SelectIdle
    /\ ThresholdIdle

NextSplit == LoadAndProcessImage

SpecSplit == InitSplit /\ [][NextSplit]_vars

\* the crop derivation of optibeam/utils.py and optibeam/processing.py
InitCrop ==
    /\ CropInit
    /\ PipeIdle
    /\ PoolIdle
    /\ TimeoutIdle
    /\ SplitIdle
    /\ ComposeIdle
    /\ WalkIdle
    /\ SelectIdle
    /\ ThresholdIdle

NextCrop ==
    \/ CropImages
    \/ CropImagesFromClicks

SpecCrop == InitCrop /\ [][NextCrop]_vars

\* the function composition of optibeam/utils.py
InitCompose ==
    /\ ComposeInit
    /\ PipeIdle
    /\ PoolIdle
    /\ TimeoutIdle
    /\ SplitIdle
    /\ CropIdle
    /\ WalkIdle
    /\ SelectIdle
    /\ ThresholdIdle

NextCompose ==
    \/ CombineFunctions
    \/ CallCombined
    \/ LoadImage

SpecCompose == InitCompose /\ [][NextCompose]_vars

\* the directory walk of optibeam/utils.py
InitWalk ==
    /\ WalkInit
    /\ PipeIdle
    /\ PoolIdle
    /\ TimeoutIdle
    /\ SplitIdle
    /\ CropIdle
    /\ ComposeIdle
    /\ SelectIdle
    /\ ThresholdIdle

NextWalk ==
    \/ GetAllFilePaths
    \/ WalkStep
    \/ NextDir
    \/ ReturnFilePaths

SpecWalk == InitWalk /\ [][NextWalk]_vars

\* the region selection tools of optibeam/processing.py
InitSelect ==
    /\ SelectInit
    /\ PipeIdle
    /\ PoolIdle
    /\ TimeoutIdle
    /\ SplitIdle
    /\ CropIdle
    /\ ComposeIdle
    /\ WalkIdle
    /\ ThresholdIdle

NextSelect ==
    \/ MouseClickCorner
    \/ MouseClickCenter
    \/ EscPressed

SpecSelect == InitSelect /\ [][NextSelect]_vars

\* the thresholding of optibeam/processing.py
InitThreshold ==
    /\ ThresholdInit
    /\ PipeIdle
    /\ PoolIdle
    /\ TimeoutIdle
    /\ SplitIdle
    /\ CropIdle
    /\ ComposeIdle
    /\ WalkIdle
    /\ SelectIdle

NextThreshold == ApplyThreshold

SpecThreshold == InitThreshold /\ [][NextThreshold]_vars

\* Every stage of either pipeline runs whenever it can: the tf.data runner
\* threads and the generator frame resumed by next() are never starved.  The
\* consumer is free to stop pulling, so StartPull carries no fairness.
FairSpec ==
    /\ Init
    /\ [][Next]_vars
    /\ WF_vars(TfMapStart)
    /\ WF_vars(TfMapDone)
    /\ WF_vars(TfBatchTake)
    /\ WF_vars(TfBatchEnd)
    /\ WF_vars(TfDeliver)
    /\ WF_vars(TfDeliverEos)
    /\ WF_vars(GenWhile)
    /\ WF_vars(GenRow)
    /\ WF_vars(GenWrap)
    /\ WF_vars(GenStop)

\* ------------------------------------------------------- pipeline properties
AllValid == \A i \in 1..M : manifest[i].ok

\* shuffle=False, or shuffle with a window of one element
Unshuffled == ~shuffle \/ buffer_size = 1

\* the batches among the delivered outcomes, in delivery order
DeliveredBatches ==
    LET b == SelectSeq(delivered, LAMBDA o : o.type = "batch")
    IN [k \in 1..Len(b) |-> b[k].items]

\* how often sample i occurs in the first n delivered outcomes
Occurrences(i, n) ==
    Cardinality({<<k, j>> \in (1..n) \X (1..MaxBatch) :
                    /\ j <= Len(delivered[k].items)
                    /\ delivered[k].items[j] = i})

\* the epoch is over for the consumer: end of sequence was signalled, or the
\* generator is finished
Finished == gen_pc = "dead" \/ \E k \in 1..Len(delivered) : delivered[k] = Eos

\* C1: with shuffling disabled, over a manifest of N*batch_size valid
\* samples the k-th pull (k = 1..N) returns the batch of the manifest samples
\* (k-1)*batch_size+1 .. k*batch_size in manifest order; and in every run
\* the n-th batch pulled is the n-th batch assembled.
C1_FifoManifestOrder ==
    /\ (AllValid /\ Unshuffled /\ is_batch /\ M % batch_size = 0) =>
          \A k \in 1..Len(delivered) :
              k <= M \div batch_size =>
                  delivered[k] = Batch(Run((k - 1) * batch_size, batch_size))
    /\ Len(DeliveredBatches) <= Len(assembled)
    /\ \A n \in 1..Len(DeliveredBatches) : DeliveredBatches[n] = assembled[n]

\* C1 witness: two batches of two were pulled from a shuffled-with-window-1
\* tf pipeline over four valid samples
C1_Witness ==
    /\ kind = "tf" /\ shuffle /\ buffer_size = 1
    /\ AllValid /\ M = 4 /\ batch_size = 2
    /\ Len(delivered) >= 2
    /\ delivered[2] = Batch(<<3, 4>>)

\* C2: every pull of the next batch completes (with a batch or an explicit
\* end-of-epoch signal); it never blocks or loops forever, also after all
\* samples were batched and for an empty manifest.
C2_PullCompletes == pulling ~> ~pulling

\* C3: every delivered batch holds exactly batch_size pairs except possibly
\* the final batch of the epoch, and the M mod batch_size samples left at
\* the end of the epoch are delivered as that epoch's final, shorter batch.
C3_BatchSizeKeepPartial ==
    (AllValid /\ is_batch /\ M >= 1) =>
        LET last == Ceil(M, batch_size)
        IN /\ \A k \in 1..Len(delivered) :
                  delivered[k].type = "batch" =>
                      \/ Len(delivered[k].items) = batch_size
                      \/ k = last /\ Len(delivered[k].items) = M % batch_size
           /\ (M % batch_size /= 0 /\ Len(delivered) >= last) =>
                  /\ delivered[last].type = "batch"
                  /\ Len(delivered[last].items) = M % batch_size
                  /\ Unshuffled =>
                        delivered[last].items =
                            Run(M - (M % batch_size), M % batch_size)

\* C4: one epoch over M valid samples delivers exactly ceil(M/batch_size)
\* batches, which together contain every manifest sample exactly once.
C4_EpochExactlyOnce ==
    (AllValid /\ is_batch /\ M >= 1 /\ Len(delivered) >= Ceil(M, batch_size)) =>
        LET n == Ceil(M, batch_size)
        IN /\ \A k \in 1..n : delivered[k].type = "batch"
           /\ \A i \in 1..M : Occurrences(i, n) = 1
           /\ (kind = "tf" /\ Len(delivered) > n) => delivered[n + 1] = Eos

\* C5: a derivation failure on one sample does not abort the pipeline: the
\* failing sample is skipped and every later valid sample of the manifest
\* is still delivered in a batch.
C5_FailureSkipped ==
    Finished =>
        \A j \in 1..M :
            (manifest[j].ok /\ \E i \in 1..(j - 1) : ~manifest[i].ok) =>
                \E k \in 1..Len(delivered) :
                    /\ delivered[k].type \in {"batch", "item"}
                    /\ j \in Range(delivered[k].items)

\* --------------------------------------------------- parallel map properties
\* function raises on item i of data_list
Raises(i) == function[data_list[i]] = "raise"

\* C6: the parallel map returns its results in input order: for every
\* function, item list and completion order of the workers, the returned
\* list is as long as the item list and result[i] = function(items[i]).
C6_InputOrder ==
    p_pc = "returned" =>
        /\ Len(result) = N
        /\ \A i \in 1..N : result[i] = function[data_list[i]]

\* C6 witness: a call over three items with different results returned
\* although the second task finished before the first
C6_Witness ==
    /\ p_pc = "returned"
    /\ N = 3
    /\ function[data_list[1]] /= function[data_list[2]]
    /\ done_order[1] = 2
    /\ done_order[2] = 1

\* C7: when function raises on one item, the fault is reported as an error
\* for that item only: the call still returns, with the results of all
\* other items.
C7_ItemLevelError ==
    (p_pc \in {"returned", "raised"} /\ \E i \in 1..N : Raises(i)) =>
        /\ p_pc = "returned"
        /\ Len(result) = N
        /\ \A i \in 1..N : ~Raises(i) => result[i] = function[data_list[i]]

\* ----------------------------------------------------- timeout properties
\* C8: if the guarded function has not returned when the timeout expires,
\* the caller's call ends by raising TimeoutError and nothing else; nothing
\* the abandoned function does afterwards reaches the caller.
C8_TimeoutOnly ==
    (w_pc = "done" /\ timed_out) => outcome = Raised(TimeoutErr)

\* C9: if the guarded function finishes before the timeout expires, the
\* guarded call has the outcome of the function: it returns what the
\* function returned, raises what the function raised, and never raises
\* TimeoutError.
C9_SameOutcome ==
    (w_pc = "done" /\ ~timed_out) =>
        outcome = [kind |-> func[args].kind, obj |-> func[args].obj]

\* -------------------------------------------------------- split properties
\* the source image of a returned pair, converted
Source == ConvertImageDtype(file.image)

\* C10: split derivation of an image of width W returns target (label) =
\* columns [0, floor(W/2)) and input = columns [floor(W/2), W) of the same
\* source image: equal widths k for W = 2k, input width k+1 and target
\* width k for W = 2k+1, every source column in exactly one half.
C10_SplitHalves ==
    s_pc = "returned" =>
        LET W == Width(Source)
            k == W \div 2
        IN /\ Height(s_label) = Height(Source)
           /\ Height(s_input) = Height(Source)
           /\ \A r \in 1..Height(Source) :
                 /\ Len(s_label[r]) = k
                 /\ Len(s_input[r]) = (IF W = 2 * k THEN k ELSE k + 1)
                 /\ \A c \in 1..k : s_label[r][c] = Source[r][c]
                 /\ \A c \in 1..(W - k) : s_input[r][c] = Source[r][k + c]
                 /\ s_label[r] \o s_input[r] = Source[r]

\* C10 witness: an image of odd width 3 was split into a target of one
\* column and an input of two
C10_Witness ==
    /\ s_pc = "returned"
    /\ Width(file.image) = 3
    /\ Len(s_label[1]) = 1
    /\ Len(s_input[1]) = 2
    /\ file.image[1] = <<0, 255, 0>>

\* ---------------------------------------------------------- crop properties
\* the rectangle invariant: top_left.x < bottom_right.x, top_left.y < bottom_right.y
RectangleValid(r) == r[1][1] < r[2][1] /\ r[1][2] < r[2][2]
\* the rectangle lies within an image of the given shape
WithinImage(r, shape) ==
    /\ 0 <= r[1][1] /\ r[2][1] <= shape.w
    /\ 0 <= r[1][2] /\ r[2][2] <= shape.h

\* C11: for every rectangle r with top_left.x < bottom_right.x and
\* top_left.y < bottom_right.y, cropping r returns the sub-image of exactly
\* width bottom_right.x - top_left.x and height bottom_right.y - top_left.y
\* whose cells are the image's cells from top_left on, and the call returns
\* one cropped image per requested rectangle, in request order.
C11_ExactCrop ==
    crop_pc = "returned" =>
        /\ Len(cropped_images) = Len(regions)
        /\ \A i \in 1..Len(regions) :
              RectangleValid(regions[i]) =>
                  LET r == regions[i]
                      c == cropped_images[i]
                  IN /\ c.w = r[2][1] - r[1][1]
                     /\ c.h = r[2][2] - r[1][2]
                     /\ \A p \in DOMAIN c.px :
                           c.px[p] = <<r[1][2] + p[1] - 1, r[1][1] + p[2] - 1>>

\* C12: a rectangle that violates the rectangle invariant, or that extends
\* past the image bounds, is rejected with an error: a crop call never
\* returns for such a rectangle (no silently clamped, empty or smaller crop).
C12_InvalidRejected ==
    crop_pc = "returned" =>
        \A i \in 1..Len(regions) :
            RectangleValid(regions[i]) /\ WithinImage(regions[i], crop_image)

\* C13: every pair has an input and a target of identical shape (H, W, C):
\* load_and_process_image never hands to the batch stage a pair whose two
\* shapes differ (such a sample is failed instead).
C13_SameShape ==
    s_pc = "returned" =>
        /\ Height(s_input) = Height(s_label)
        /\ \A r \in 1..Height(s_input) : Len(s_input[r]) = Len(s_label[r])

\* ------------------------------------------------------ composition properties
\* fn(...f2(f1(x))...) for the first n functions of the list
RECURSIVE Chain(_, _, _)
Chain(fs, n, x) == IF n = 0 THEN x ELSE fs[n][Chain(fs, n - 1, x)]

\* C14: combine_functions([f1, ..., fn])(x) = fn(...f2(f1(x))...): the
\* functions are applied left to right, [] gives the identity, [f] behaves
\* as f, and [f, g](x) = g(f(x)); the loop of ImageLoader.load_image applies
\* its funcs in the same order.
C14_LeftToRight ==
    /\ f_pc = "combined" =>
          \A x \in Data : combined[x] = Chain(functions, Len(functions), x)
    /\ f_pc \in {"called", "loaded"} =>
          /\ y_out = Chain(functions, Len(functions), x_arg)
          /\ functions = <<>> => y_out = x_arg
          /\ Len(functions) = 1 => y_out = functions[1][x_arg]
          /\ Len(functions) = 2 => y_out = functions[2][functions[1][x_arg]]

\* C14 witness: a combination of three functions was called and returned
\* f3(f2(f1(x))), which differs from the right-to-left f1(f2(f3(x)))
C14_Witness ==
    /\ f_pc = "called"
    /\ Len(functions) = 3
    /\ y_out = functions[3][functions[2][functions[1][x_arg]]]
    /\ y_out # functions[1][functions[2][functions[3][x_arg]]]

\* ------------------------------------------------------------ walk properties
\* lexicographic order of paths
RECURSIVE PathLess(_, _)
PathLess(p, q) ==
    IF q = <<>> THEN FALSE
    ELSE IF p = <<>> THEN TRUE
    ELSE IF Head(p) # Head(q) THEN Head(p) < Head(q)
    ELSE PathLess(Tail(p), Tail(q))

\* the absolute paths of the matching files below the directories of `dirs`
MatchingPaths ==
    IF \A i \in DOMAIN dirs : dirs[i] = MissingDir THEN {}
    ELSE {AbsPath(ExistingDir, n) : n \in {m \in Names : tree[m].kind = "file"}}
         \cup {AbsPath(<<1, d>>, n) : <<d, n>> \in
                  {e \in Names \X Names : /\ tree[e[1]].kind = "dir"
                                          /\ tree[e[1]].sub[e[2]] = "file"}}

\* C15: the walk returns the absolute paths of the matching files in sorted
\* order, whatever the order in which the file system enumerates its entries.
C15_SortedManifest ==
    g_pc = "returned" =>
        /\ Range(file_paths) = MatchingPaths
        /\ \A i \in 1..(Len(file_paths) - 1) :
              ~PathLess(file_paths[i + 1], file_paths[i])

\* C16: the walk of a root that does not exist fails with an error: it never
\* returns a manifest.
C16_MissingRootFails ==
    g_pc = "returned" => \A i \in DOMAIN dirs : dirs[i] # MissingDir

\* ------------------------------------------------------ determinism of a run
\* what an unshuffled tf_dataset_prep pipeline hands out, computed from the
\* configuration alone: the manifest is read front to back from element i on
RECURSIVE TfSequence(_, _, _)
TfSequence(i, cur, out) ==
    IF i > M
    THEN (IF cur = <<>> THEN out ELSE Append(out, Batch(cur)))
    ELSE IF ~manifest[i].ok THEN TfSequence(i + 1, <<>>, Append(out, Error))
    ELSE IF Len(cur) + 1 >= batch_size
         THEN TfSequence(i + 1, <<>>, Append(out, Batch(Append(cur, i))))
         ELSE TfSequence(i + 1, Append(cur, i), out)

\* the first n outcomes of the data_pipeline generator, computed from the
\* configuration alone; r rows were read so far
RECURSIVE GenSequence(_, _, _, _, _)
GenSequence(r, bx, dead, out, n) ==
    IF Len(out) = n \/ M = 0 THEN out
    ELSE IF dead THEN GenSequence(r, bx, TRUE, Append(out, Eos), n)
    ELSE LET i == (r % M) + 1
         IN IF ~manifest[i].ok
            THEN GenSequence(r + 1, bx, TRUE, Append(out, Error), n)
            ELSE IF ~is_batch
            THEN GenSequence(r + 1, bx, FALSE, Append(out, Item(i)), n)
            ELSE IF Len(bx) + 1 >= batch_size
            THEN GenSequence(r + 1, <<>>, FALSE,
                             Append(out, Batch(Append(bx, i))), n)
            ELSE GenSequence(r + 1, Append(bx, i), FALSE, out, n)

\* the k-th outcome every run of the configuration must deliver
Expected(k) ==
    IF kind = "tf"
    THEN LET s == TfSequence(1, <<>>, <<>>)
         IN IF k <= Len(s) THEN s[k] ELSE Eos
    ELSE GenSequence(0, <<>>, FALSE, <<>>, k)[k]

\* C17: with shuffle window 1 (or no shuffle) the sequence of outcomes a run
\* delivers is fixed by the configuration and the manifest alone, so two runs
\* of the same configuration deliver identical sequences of batches whatever
\* the scheduling of the map workers.
C17_Deterministic ==
    Unshuffled => \A k \in 1..Len(delivered) : delivered[k] = Expected(k)

\* C17 witness: a shuffle window of 1; the second map invocation has finished
\* before the first, and the batch delivered so far is the expected one
C17_Witness ==
    /\ kind = "tf"
    /\ shuffle
    /\ buffer_size = 1
    /\ delivered = <<Batch(<<1, 2>>)>>
    /\ Len(inflight) = 2
    /\ inflight[1].st = "run"
    /\ inflight[2].st = "ok"

\* ------------------------------------------------------- selection properties
\* C18: every rectangle returned by select_crop_areas_corner and
\* select_crop_areas_center, after any sequence of clicks, satisfies the
\* rectangle invariant top_left.x < bottom_right.x and
\* top_left.y < bottom_right.y.
C18_ReturnedRectanglesValid ==
    sel_pc = "returned" =>
        \A i \in 1..Len(rectangles) : RectangleValid(rectangles[i])

\* the point lies within [0, image width] x [0, image height]
InImage(p) == 0 <= p[1] /\ p[1] <= max_x /\ 0 <= p[2] /\ p[2] <= max_y

\* what holds of the two lists after any sequence of left clicks
ListsBounded ==
    /\ Len(points) <= 2 * num
    /\ Len(rectangles) = Len(points) \div 2
    /\ Len(rectangles) <= num
    /\ \A i \in 1..Len(rectangles) :
          InImage(rectangles[i][1]) /\ InImage(rectangles[i][2])

\* a click that arrives when num rectangles are complete leaves only itself
\* in points and nothing in rectangles
ClickResets ==
    (Len(rectangles) = num /\ points' # points) =>
        /\ rectangles' = <<>>
        /\ \E c \in Clicks : points' = <<<<Orig(c[1]), Orig(c[2])>>>>

\* C19: in both tools, with num >= 1 and after any sequence of left clicks,
\* points never holds more than 2 * num points, rectangles holds
\* floor(len(points) / 2) <= num rectangles, a click arriving when num
\* rectangles are complete clears points and rectangles before it is recorded
\* as the first point of a new set, and every corner of every stored
\* rectangle lies within [0, image width] x [0, image height].
C19_SelectionBounded == [](ListsBounded) /\ [][ClickResets]_vars

\* C19 witness: the center tool, after a reset, holds one complete square
\* whose second click was outside the image and whose corner was clamped
C19_Witness ==
    /\ tool = "center"
    /\ num = 2
    /\ was_reset
    /\ Len(points) = 2
    /\ ~InImage(points[2])
    /\ Len(rectangles) = 1
    /\ rectangles[1][2] = <<max_x, max_y>>

\* -------------------------------------------------------- threshold properties
\* the image is floating point and all its values are in [0, 1]
NormalizedFloat(img) ==
    /\ img.dtype \in {"float16", "float32", "float64"}
    /\ \A i \in 1..Len(img.px) : 0 <= img.px[i] /\ img.px[i] <= Unit

\* C20: apply_threshold returns an image of the same shape in which every
\* pixel below the effective threshold is 0 and every pixel at or above it is
\* unchanged; the effective threshold is threshold / 255 when the image is
\* floating point with all values in [0, 1], and the given threshold otherwise.
C20_Thresholded ==
    thr_pc = "returned" =>
        /\ Len(thresholded_image) = Len(thr_image.px)
        /\ \A i \in 1..Len(thr_image.px) :
              LET p == thr_image.px[i]
                  below == IF NormalizedFloat(thr_image)
                           THEN p * Unit < threshold
                           ELSE p < threshold
              IN thresholded_image[i] = (IF below THEN 0 ELSE p)

====
